---- MODULE Spec2Model ----
(***************************************************************************)
(* Model of app/application.py: the pairwise scorer                        *)
(* (needleman_wunsch_similarity), the sequence extraction                  *)
(* (retrieve_dna_sequence_from_file) and the three request handlers        *)
(* compare, identify and missing.                                          *)
(*                                                                         *)
(* A similarity score is the quotient alignment_score / max_score; it is   *)
(* kept as the exact fraction [num, den] (den > 0).  similarity == 1 is    *)
(* num = den, and round(similarity * 100) is the fraction 100*num/den      *)
(* rounded half to even, as Python's round does.  (The float pipeline and  *)
(* the exact rounding agree on every score/max_score pair with             *)
(* max_score <= 930 except at ties far from the thresholds 96 and 100.)    *)
(***************************************************************************)
EXTENDS Integers, Sequences, FiniteSets, TLC

VARIABLES
    \* ---- one request to compare / identify / missing ----
    request,                  \* the request being handled
    pc,                       \* "idle", "scan" (inside the for loop), "done"
    api_data,                 \* what retrieve_api_data returned
    sequence_a,               \* query sequence
    filtered_data,            \* the list the for loop iterates
    idx,                      \* position of the loop in filtered_data
    matches,                  \* identify: matches list
    match_info,               \* identify / missing: match_info
    similarity_score,         \* last value returned by the scorer
    similarity_percentage,    \* round(similarity_score * 100)
    potential_children_info,  \* missing: collected relative candidates
    scored,                   \* positions of filtered_data handed to the scorer
    response,                 \* the handler's reply
    \* ---- the scorer applied to a pair of sequences ----
    seq1, seq2, sc_result, sc_pc,
    \* ---- retrieve_dna_sequence_from_file, one loop iteration at a time ----
    file, max_length, data, total_length, line_no, rd_pc, rd_result

handler_vars == << request, pc, api_data, sequence_a, filtered_data, idx, matches,
                   match_info, similarity_score, similarity_percentage,
                   potential_children_info, scored, response >>
scorer_vars == << seq1, seq2, sc_result, sc_pc >>
reader_vars == << file, max_length, data, total_length, line_no, rd_pc, rd_result >>
vars == << handler_vars, scorer_vars, reader_vars >>

----------------------------------------------------------------------------
(* Bounds of the model *)

\* length of the query sequence used by the handlers
LongLen == 300
\* largest population returned by the API
MaxPop == 3
\* longest sequence handed to the scorer on its own
MaxSeqLen == 3
\* most lines of an uploaded file read on its own
MaxLines == 2
\* largest max_length passed to the reader on its own
MaxCap == 3

----------------------------------------------------------------------------
(* Small helpers *)

Max2(a, b) == IF a >= b THEN a ELSE b
Min2(a, b) == IF a <= b THEN a ELSE b

\* s[:n] of Python, n >= 0
Take(s, n) == SubSeq(s, 1, Min2(Len(s), n))

\* a function over 1..n as a sequence value
AsSeq(f) == SubSeq(f, 1, Len(f))

\* all sequences over S of length at most n
SeqsUpTo(S, n) == UNION { [1..k -> S] : k \in 0..n }

----------------------------------------------------------------------------
(* needleman_wunsch_similarity *)

match_score == 3
mismatch_penalty == -1
gap_penalty == -2

\* One row of the global-alignment matrix: cur holds columns 0..lo-1 of the
\* row for residue a, prev is the row above; columns lo..hi are appended.
\* (The range is split in halves only to keep the evaluation shallow.)
RECURSIVE FillRow(_, _, _, _, _, _, _, _, _)
FillRow(prev, a, s2, cur, lo, hi, m, mm, g) ==
    IF lo > hi \/ Len(cur) # lo THEN cur
    ELSE IF lo = hi
         THEN Append(cur, Max2(prev[lo] + (IF a = s2[lo] THEN m ELSE mm),
                               Max2(prev[lo + 1] + g, cur[lo] + g)))
         ELSE FillRow(prev, a, s2,
                      FillRow(prev, a, s2, cur, lo, (lo + hi) \div 2, m, mm, g),
                      ((lo + hi) \div 2) + 1, hi, m, mm, g)

\* Rows lo..hi of the matrix, starting from row lo-1 (prev).
RECURSIVE Rows(_, _, _, _, _, _, _, _)
Rows(prev, s1, s2, lo, hi, m, mm, g) ==
    IF lo > hi \/ Len(prev) # Len(s2) + 1 THEN prev
    ELSE IF lo = hi
         THEN FillRow(prev, s1[lo], s2, << g * lo >>, 1, Len(s2), m, mm, g)
         ELSE Rows(Rows(prev, s1, s2, lo, (lo + hi) \div 2, m, mm, g),
                   s1, s2, ((lo + hi) \div 2) + 1, hi, m, mm, g)

\* pairwise2.align.globalms(seq1, seq2, match, mismatch, open, extend) as the
\* code calls it, with open = extend: a gap of k symbols costs k * open.  The
\* result is the list of alignments, of which only the score of the first is
\* read; the list is empty when either sequence is empty.
globalms(s1, s2, m, mm, open, extend) ==
    IF Len(s1) = 0 \/ Len(s2) = 0 THEN << >>
    ELSE << [score |->
              Rows(AsSeq([j \in 1..(Len(s2) + 1) |-> open * (j - 1)]),
                   s1, s2, 1, Len(s1), m, mm, extend)[Len(s2) + 1]] >>

\* the float 0.0
Zero == [num |-> 0, den |-> 1]

\* mutant: the empty-alignment guard is missing, the division is attempted
nws_unguarded(s1, s2, m, mm, g) ==
    LET alignments == globalms(s1, s2, m, mm, g, g)
        max_score == Max2(Len(s1), Len(s2)) * m
    IN  IF max_score = 0 THEN [num |-> 0, den |-> 0, error |-> "ZeroDivisionError"]
        ELSE IF alignments = << >> THEN Zero
        ELSE [num |-> alignments[1].score, den |-> max_score]

needleman_wunsch_similarity(s1, s2, m, mm, g) ==
    LET alignments == globalms(s1, s2, m, mm, g, g)
        max_score == Max2(Len(s1), Len(s2)) * m
    IN  IF alignments = << >> THEN Zero
        ELSE [num |-> alignments[1].score, den |-> max_score]

\* similarity_score == 1
IsOne(s) == s.num = s.den

\* similarity_score >= p/q  (q > 0)
AtLeast(s, p, q) == s.num * q >= p * s.den

\* Python's round(n / d), d > 0: nearest integer, ties to even
RoundHalfEven(n, d) ==
    LET q == n \div d
        r == n % d
    IN  IF 2 * r < d THEN q
        ELSE IF 2 * r > d THEN q + 1
        ELSE IF q % 2 = 0 THEN q ELSE q + 1

\* round(similarity_score * 100)
Percentage(s) == RoundHalfEven(100 * s.num, s.den)

----------------------------------------------------------------------------
(* The scorer on its own: a pair of short sequences is drawn and scored *)

Residues == {"A", "C"}

ScorerInit ==
    /\ seq1 \in SeqsUpTo(Residues, MaxSeqLen)
    /\ seq2 \in SeqsUpTo(Residues, MaxSeqLen)
    /\ sc_result = Zero
    /\ sc_pc = "call"

Score ==
    /\ sc_pc = "call"
    /\ sc_result' = needleman_wunsch_similarity(seq1, seq2, match_score,
                                                mismatch_penalty, gap_penalty)
    /\ sc_pc' = "returned"
    /\ UNCHANGED << seq1, seq2 >>

----------------------------------------------------------------------------
(* retrieve_dna_sequence_from_file *)

\* bytes.strip() removes leading and trailing ASCII whitespace
Whitespace == {9, 10, 11, 12, 13, 32}

RECURSIVE LStrip(_)
LStrip(l) == IF Len(l) > 0 /\ l[1] \in Whitespace THEN LStrip(Tail(l)) ELSE l

RECURSIVE RStrip(_)
RStrip(l) ==
    IF Len(l) > 0 /\ l[Len(l)] \in Whitespace THEN RStrip(SubSeq(l, 1, Len(l) - 1)) ELSE l

strip(l) == RStrip(LStrip(l))

\* line.startswith(b'>')
IsHeader(l) == Len(l) > 0 /\ l[1] = 62   \* 62 is ">"

\* bytes.decode() on the ASCII bytes of the model: one character per byte
Chr(b) == CASE b = 65 -> "A" [] b = 67 -> "C" [] b = 71 -> "G" [] b = 84 -> "T"
            [] b = 62 -> ">" [] b = 32 -> " " [] b = 10 -> "\n" [] OTHER -> "?"
decode(bs) == [k \in 1..Len(bs) |-> Chr(bs[k])]

\* mutant: total_length counts the whole line, also when only part of it is kept
ReadLineWholeCount(st, raw, cap) ==
    LET line == strip(raw)
        remaining_length == cap - st.total_length
    IN  IF IsHeader(line) THEN st
        ELSE IF remaining_length <= 0 THEN [st EXCEPT !.stopped = TRUE]
        ELSE [st EXCEPT !.data = st.data \o Take(line, remaining_length),
                        !.total_length = st.total_length + Len(line)]

\* One iteration of the for loop (lines 24-32) on the loop state
\* st = [data, total_length, stopped]; stopped is the break.
ReadLine(st, raw, cap) ==
    LET line == strip(raw)
        remaining_length == cap - st.total_length
    IN  IF IsHeader(line) THEN st
        ELSE IF remaining_length <= 0 THEN [st EXCEPT !.stopped = TRUE]
        ELSE [st EXCEPT !.data = st.data \o Take(line, remaining_length),
                        !.total_length = st.total_length + Min2(Len(line), remaining_length)]

RECURSIVE ReadLines(_, _, _, _)
ReadLines(st, f, k, cap) ==
    IF k > Len(f) \/ st.stopped THEN st
    ELSE ReadLines(ReadLine(st, f[k], cap), f, k + 1, cap)

\* the whole function
retrieve_dna_sequence_from_file(f, cap) ==
    decode(ReadLines([data |-> << >>, total_length |-> 0, stopped |-> FALSE], f, 1, cap).data)

----------------------------------------------------------------------------
(* The reader on its own: a file and a cap are drawn, the loop runs *)

\* "", "\n", ">A\n", " >C", "A\n", "C", " AC \n", "A>C\n", "C A"
SampleLines ==
    { << >>, << 10 >>, << 62, 65, 10 >>, << 32, 62, 67 >>, << 65, 10 >>, << 67 >>,
      << 32, 65, 67, 32, 10 >>, << 65, 62, 67, 10 >>, << 67, 32, 65 >> }

ReaderInit ==
    /\ file \in SeqsUpTo(SampleLines, MaxLines)
    /\ max_length \in 0..MaxCap
    /\ data = << >>
    /\ total_length = 0
    /\ line_no = 1
    /\ rd_pc = "loop"
    /\ rd_result = << >>

ReadStep ==
    /\ rd_pc = "loop"
    /\ line_no <= Len(file)
    /\ LET st == ReadLine([data |-> data, total_length |-> total_length, stopped |-> FALSE],
                          file[line_no], max_length)
       IN  /\ data' = st.data
           /\ total_length' = st.total_length
           /\ IF st.stopped
              THEN /\ rd_pc' = "return"
                   /\ line_no' = line_no
              ELSE /\ rd_pc' = "loop"
                   /\ line_no' = line_no + 1
    /\ UNCHANGED << file, max_length, rd_result >>

ReadExhausted ==
    /\ rd_pc = "loop"
    /\ line_no > Len(file)
    /\ rd_pc' = "return"
    /\ UNCHANGED << file, max_length, data, total_length, line_no, rd_result >>

ReadReturn ==
    /\ rd_pc = "return"
    /\ rd_result' = decode(data)
    /\ rd_pc' = "done"
    /\ UNCHANGED << file, max_length, data, total_length, line_no >>

----------------------------------------------------------------------------
(* Data of the handlers: dictionaries are functions from their keys *)

EmptyDict == [k \in {} |-> ""]

None == "None"

\* d.get(k)
Get(d, k) == IF k \in DOMAIN d THEN d[k] ELSE None

\* the slice [:2000] of lines 160 and 235, and max_length of lines 21 and 132
SequenceCap == 2000

info_keys == {"name", "status", "description", "createdAt", "updatedAt", "address",
              "national_id", "phone", "gender", "birthdate", "bloodType"}

valid_statuses == {"missing", "acknowledged", "crime", "disaster"}

\* {key: entry[key] for key in info_keys if key in entry}
InfoOf(entry) == [key \in (info_keys \cap DOMAIN entry) |-> entry[key]]

----------------------------------------------------------------------------
(* The sequences of the model *)

\* the uploaded query, as bytes: ACGT repeated ("A" is 65, "C" 67, "G" 71, "T" 84)
QueryBytes == AsSeq([k \in 1..LongLen |-> << 65, 67, 71, 84 >>[((k - 1) % 4) + 1]])

\* ">q\n", then the query on two lines
QueryFile == << << 62, 113, 10 >>,
                SubSeq(QueryBytes, 1, LongLen \div 2) \o << 10 >>,
                << 32 >> \o SubSeq(QueryBytes, (LongLen \div 2) + 1, LongLen) \o << 10 >> >>

\* a file with a header and no sequence data
HeaderOnlyFile == << << 62, 113, 10 >>, << 10 >> >>

Query == decode(QueryBytes)

\* s with the residues at the positions P replaced by another residue
Substituted(s, P) ==
    AsSeq([k \in 1..Len(s) |-> IF k \in P THEN (IF s[k] = "A" THEN "C" ELSE "A") ELSE s[k]])

Near == Substituted(Query, {7})                        \* 1 substitution
Close == Substituted(Query, {10, 110, 210})            \* 3 substitutions
Edge == Substituted(Query, {30 * k : k \in 1..9})      \* 9 substitutions
Below == Substituted(Query, {29 * k : k \in 1..10})    \* 10 substitutions
Far == SubSeq(Query, 1, 40)

\* needleman_wunsch_similarity with its default parameters, tabulated once for
\* the sequences of the model
SimilarityTable ==
    [p \in { << Query, s >> : s \in {Query, Near, Close, Edge, Below, Far} } |->
        needleman_wunsch_similarity(p[1], p[2], match_score, mismatch_penalty, gap_penalty)]

Similarity(s1, s2) ==
    IF << s1, s2 >> \in DOMAIN SimilarityTable
    THEN SimilarityTable[<< s1, s2 >>]
    ELSE needleman_wunsch_similarity(s1, s2, match_score, mismatch_penalty, gap_penalty)

\* records of the population
Entries ==
    { [name |-> "a", status |-> "missing", national_id |-> "n1", DNA_sequence |-> Query],
      [name |-> "b", status |-> "crime", national_id |-> "n2", DNA_sequence |-> Query],
      [name |-> "c", status |-> "missing", national_id |-> "n1", DNA_sequence |-> Close],
      [name |-> "d", status |-> "missing", national_id |-> "n3", DNA_sequence |-> Near],
      [name |-> "e", status |-> "crime", national_id |-> "n4", DNA_sequence |-> Below],
      [name |-> "f", status |-> "missing", DNA_sequence |-> Edge],
      [name |-> "g", status |-> "disaster", national_id |-> "n5"],
      [name |-> "h", status |-> "crime", national_id |-> "n2", DNA_sequence |-> Far] }

Populations == SeqsUpTo(Entries, MaxPop)

\* retrieve_api_data: the population, or an error
ApiOutcomes ==
    { [error |-> "API response is not in the expected format."],
      [error |-> "Failed to retrieve data from API"] }
    \cup { [population |-> p] : p \in Populations }

NotFetched == [unfetched |-> TRUE]

Uploads ==
    { [filename |-> "", body |-> << >>],
      [filename |-> "query.fasta", body |-> QueryFile],
      [filename |-> "header.fasta", body |-> HeaderOnlyFile] }

Forms == { EmptyDict } \cup { [status |-> s] : s \in {"all", "missing", "crime", "unknown_status"} }

NoResponse == [message |-> "", statusCode |-> 0]

HandlerInit ==
    /\ request = [route |-> "", method |-> "", files |-> EmptyDict, form |-> EmptyDict]
    /\ pc = "idle"
    /\ api_data = NotFetched
    /\ sequence_a = << >>
    /\ filtered_data = << >>
    /\ idx = 1
    /\ matches = << >>
    /\ match_info = EmptyDict
    /\ similarity_score = Zero
    /\ similarity_percentage = 0
    /\ potential_children_info = << >>
    /\ scored = << >>
    /\ response = NoResponse

\* the handler returns r
Reply(r) ==
    /\ response' = r
    /\ pc' = "done"

----------------------------------------------------------------------------
(* compare *)

CompareRequest ==
    /\ pc = "idle"
    /\ \E files \in { EmptyDict } \cup { [file_a |-> u] : u \in Uploads }
                    \cup { [file_a |-> u, file_b |-> v] : u \in Uploads, v \in Uploads } :
        /\ request' = [route |-> "compare", method |-> "POST", files |-> files,
                       form |-> EmptyDict]
        /\ IF "file_a" \notin DOMAIN files \/ "file_b" \notin DOMAIN files
           THEN /\ Reply([message |-> "Please upload a file for both DNA sequences.",
                          statusCode |-> 401])
                /\ UNCHANGED << sequence_a, similarity_score, similarity_percentage, scored >>
           ELSE IF files.file_a.filename = "" \/ files.file_b.filename = ""
           THEN /\ Reply([message |-> "Please upload non-empty files for both DNA sequences.",
                          statusCode |-> 401])
                /\ UNCHANGED << sequence_a, similarity_score, similarity_percentage, scored >>
           ELSE LET a == retrieve_dna_sequence_from_file(files.file_a.body, SequenceCap)
                    b == retrieve_dna_sequence_from_file(files.file_b.body, SequenceCap)
                    score == Similarity(a, b)
                IN  /\ sequence_a' = a
                    /\ similarity_score' = score
                    /\ similarity_percentage' = Percentage(score)
                    /\ scored' = Append(scored, 1)
                    /\ Reply([similarity_percentage |-> Percentage(score),
                              match_status |-> IF IsOne(score) THEN "DNA MATCH"
                                                               ELSE "DNA Not MATCH",
                              message |-> "Successful Comparison",
                              statusCode |-> 200])
    /\ UNCHANGED << api_data, filtered_data, idx, matches, match_info,
                    potential_children_info >>

----------------------------------------------------------------------------
(* identify *)

\* mutant: an unrecognised status falls back to the whole population
IdentifyFilterFallback(population, selected_status) ==
    IF selected_status = "all" \/ selected_status \notin valid_statuses
    THEN [invalid |-> FALSE, data |-> population]
    ELSE [invalid |-> FALSE,
          data |-> SelectSeq(population, LAMBDA entry : Get(entry, "status") = selected_status)]

\* lines 146-155: the list to scan, or the status is invalid.  (The test of
\* line 144 always succeeds here: retrieve_api_data returns a dictionary that
\* has 'population' whenever it has no 'error'.)
IdentifyFilter(population, selected_status) ==
    IF selected_status = "all"
    THEN [invalid |-> FALSE, data |-> population]
    ELSE IF selected_status \notin valid_statuses
    THEN [invalid |-> TRUE, data |-> << >>]
    ELSE [invalid |-> FALSE,
          data |-> SelectSeq(population, LAMBDA entry : Get(entry, "status") = selected_status)]

\* mutant: the loop does not stop at a perfect match
IdentifyIterationNoBreak(st, entry, k, seq_a) ==
    IF "DNA_sequence" \in DOMAIN entry
    THEN LET sequence_b == Take(entry.DNA_sequence, SequenceCap)
             score == Similarity(seq_a, sequence_b)
             hit == IsOne(score)
         IN  [matches |-> IF hit THEN Append(st.matches, InfoOf(entry)) ELSE st.matches,
              match_info |-> IF hit THEN InfoOf(entry) ELSE st.match_info,
              similarity_score |-> score,
              similarity_percentage |-> Percentage(score),
              scored |-> Append(st.scored, k),
              broke |-> FALSE]
    ELSE [st EXCEPT !.broke = FALSE]

\* lines 157-174: the body of the for loop on the entry at position k;
\* similarity_threshold is 1, broke is the break
IdentifyIteration(st, entry, k, seq_a) ==
    IF "DNA_sequence" \in DOMAIN entry
    THEN LET sequence_b == Take(entry.DNA_sequence, SequenceCap)
             score == Similarity(seq_a, sequence_b)
             hit == IsOne(score)
         IN  [matches |-> IF hit THEN Append(st.matches, InfoOf(entry)) ELSE st.matches,
              match_info |-> IF hit THEN InfoOf(entry) ELSE st.match_info,
              similarity_score |-> score,
              similarity_percentage |-> Percentage(score),
              scored |-> Append(st.scored, k),
              broke |-> hit /\ Percentage(score) = 100]
    ELSE [st EXCEPT !.broke = FALSE]

IdentifyBegin ==
    /\ pc = "idle"
    /\ \E files \in { EmptyDict } \cup { [file |-> u] : u \in Uploads },
          form \in Forms, api \in ApiOutcomes :
        /\ request' = [route |-> "identify", method |-> "POST", files |-> files,
                       form |-> form]
        /\ IF "file" \notin DOMAIN files
           THEN /\ Reply([message |-> "Please upload a file of DNA sequences.",
                          statusCode |-> 401])
                /\ UNCHANGED << api_data, sequence_a, filtered_data >>
           ELSE IF files.file.filename = ""
           THEN /\ Reply([message |-> "Please upload a non-empty file for the DNA sequence.",
                          statusCode |-> 401])
                /\ UNCHANGED << api_data, sequence_a, filtered_data >>
           ELSE /\ api_data' = api
                /\ IF "error" \in DOMAIN api
                   THEN /\ Reply([message |-> api.error, statusCode |-> 401])
                        /\ UNCHANGED << sequence_a, filtered_data >>
                   ELSE /\ sequence_a' = retrieve_dna_sequence_from_file(files.file.body,
                                                                         SequenceCap)
                        /\ LET f == IdentifyFilter(api.population, Get(form, "status"))
                           IN  IF f.invalid
                               THEN /\ Reply([message |-> "Invalid status. Please select one of: 'missing', 'acknowledged', 'crime', 'disaster' or 'all' to search in all database.",
                                              statusCode |-> 400])
                                    /\ UNCHANGED filtered_data
                               ELSE /\ filtered_data' = f.data
                                    /\ pc' = IF Len(f.data) = 0 THEN "after_loop" ELSE "scan"
                                    /\ UNCHANGED response
    /\ UNCHANGED << idx, matches, match_info, similarity_score, similarity_percentage,
                    potential_children_info, scored >>

IdentifyStep ==
    /\ pc = "scan"
    /\ request.route = "identify"
    /\ LET st == IdentifyIteration(
                    [matches |-> matches, match_info |-> match_info,
                     similarity_score |-> similarity_score,
                     similarity_percentage |-> similarity_percentage,
                     scored |-> scored, broke |-> FALSE],
                    filtered_data[idx], idx, sequence_a)
       IN  /\ matches' = st.matches
           /\ match_info' = st.match_info
           /\ similarity_score' = st.similarity_score
           /\ similarity_percentage' = st.similarity_percentage
           /\ scored' = st.scored
           /\ IF st.broke
              THEN /\ idx' = idx
                   /\ pc' = "after_loop"
              ELSE /\ idx' = idx + 1
                   /\ pc' = IF idx + 1 > Len(filtered_data) THEN "after_loop" ELSE "scan"
    /\ UNCHANGED << request, api_data, sequence_a, filtered_data,
                    potential_children_info, response >>

\* lines 176-193
IdentifyRespond ==
    /\ pc = "after_loop"
    /\ request.route = "identify"
    /\ IF matches # << >>
       THEN Reply([matches |-> match_info,
                   similarity_percentage |-> similarity_percentage,
                   match_status |-> "DNA MATCH",
                   message |-> "Successful identification",
                   statusCode |-> 200])
       ELSE Reply([message |-> "No matches found.", statusCode |-> 400])
    /\ UNCHANGED << request, api_data, sequence_a, filtered_data, idx, matches,
                    match_info, similarity_score, similarity_percentage,
                    potential_children_info, scored >>

----------------------------------------------------------------------------
(* missing *)

SIMILARITY_THRESHOLD == 100
SIMILARITY_THRESHOLD_CHILD == 96

\* lines 233-252: the body of the for loop on the entry at position k
MissingIteration(st, entry, k, seq_a) ==
    IF "DNA_sequence" \in DOMAIN entry
    THEN LET sequence_b == Take(entry.DNA_sequence, SequenceCap)
             score == Similarity(seq_a, sequence_b)
             percentage == Percentage(score)
         IN  [match_info |->
                 IF percentage = SIMILARITY_THRESHOLD
                 THEN InfoOf(entry) @@ [similarity_percentage |-> percentage,
                                        match_status |-> "DNA MATCH"]
                 ELSE st.match_info,
              potential_children_info |->
                 IF percentage >= SIMILARITY_THRESHOLD_CHILD
                 THEN Append(st.potential_children_info, [relative_data |-> InfoOf(entry)])
                 ELSE st.potential_children_info,
              similarity_score |-> score,
              similarity_percentage |-> percentage,
              scored |-> Append(st.scored, k)]
    ELSE st

\* line 256: the candidates that do not carry the main match's national_id
RelativesKept(children, main) ==
    SelectSeq(children,
              LAMBDA child : Get(child.relative_data, "national_id") # Get(main, "national_id"))

MissingBegin ==
    /\ pc = "idle"
    /\ \E method \in {"GET", "POST"},
          files \in { EmptyDict } \cup { [file |-> u] : u \in Uploads },
          api \in ApiOutcomes :
        /\ request' = [route |-> "missing", method |-> method, files |-> files,
                       form |-> EmptyDict]
        /\ IF method = "GET"
           THEN /\ Reply([template |-> "missing.html", message |-> "", statusCode |-> 200])
                /\ UNCHANGED << api_data, sequence_a, filtered_data >>
           ELSE IF "file" \notin DOMAIN files
           THEN /\ Reply([message |-> "Please upload a file of DNA sequences.",
                          statusCode |-> 401])
                /\ UNCHANGED << api_data, sequence_a, filtered_data >>
           ELSE IF files.file.filename = ""
           THEN /\ Reply([message |-> "Please upload a non-empty file for the DNA sequence.",
                          statusCode |-> 401])
                /\ UNCHANGED << api_data, sequence_a, filtered_data >>
           ELSE /\ sequence_a' = retrieve_dna_sequence_from_file(files.file.body, SequenceCap)
                /\ api_data' = api
                /\ IF "error" \in DOMAIN api
                   THEN /\ Reply([message |-> api.error, statusCode |-> 401])
                        /\ UNCHANGED filtered_data
                   ELSE /\ filtered_data' = api.population
                        /\ pc' = IF Len(api.population) = 0 THEN "after_loop" ELSE "scan"
                        /\ UNCHANGED response
    /\ UNCHANGED << idx, matches, match_info, similarity_score, similarity_percentage,
                    potential_children_info, scored >>

MissingStep ==
    /\ pc = "scan"
    /\ request.route = "missing"
    /\ LET st == MissingIteration(
                    [match_info |-> match_info,
                     potential_children_info |-> potential_children_info,
                     similarity_score |-> similarity_score,
                     similarity_percentage |-> similarity_percentage,
                     scored |-> scored],
                    filtered_data[idx], idx, sequence_a)
       IN  /\ match_info' = st.match_info
           /\ potential_children_info' = st.potential_children_info
           /\ similarity_score' = st.similarity_score
           /\ similarity_percentage' = st.similarity_percentage
           /\ scored' = st.scored
    /\ idx' = idx + 1
    /\ pc' = IF idx + 1 > Len(filtered_data) THEN "after_loop" ELSE "scan"
    /\ UNCHANGED << request, api_data, sequence_a, filtered_data, matches, response >>

\* lines 254-279
MissingRespond ==
    /\ pc = "after_loop"
    /\ request.route = "missing"
    /\ IF DOMAIN match_info # {}
       THEN LET kept == RelativesKept(potential_children_info, match_info)
            IN  /\ potential_children_info' = kept
                /\ IF kept # << >>
                   THEN Reply([main_match_info |-> match_info,
                               potential_relative_info |-> kept,
                               message |-> "Successful identification",
                               statusCode |-> 200])
                   ELSE Reply([main_match_info |-> match_info,
                               potential_relative_info |->
                                  << [message |-> "No matching child found",
                                      statusCode |-> 404] >>,
                               message |-> "Successful identification",
                               statusCode |-> 200])
       ELSE /\ Reply([message |-> "No match found.", statusCode |-> 404])
            /\ UNCHANGED potential_children_info
    /\ UNCHANGED << request, api_data, sequence_a, filtered_data, idx, matches,
                    match_info, similarity_score, similarity_percentage, scored >>

----------------------------------------------------------------------------
(* Specifications *)

ScorerIdle ==
    /\ seq1 = << >>
    /\ seq2 = << >>
    /\ sc_result = Zero
    /\ sc_pc = "off"

ReaderIdle ==
    /\ file = << >>
    /\ max_length = 0
    /\ data = << >>
    /\ total_length = 0
    /\ line_no = 1
    /\ rd_pc = "off"
    /\ rd_result = << >>

\* the request handlers
Init == HandlerInit /\ ScorerIdle /\ ReaderIdle

Next ==
    \/ CompareRequest /\ UNCHANGED << scorer_vars, reader_vars >>
    \/ IdentifyBegin /\ UNCHANGED << scorer_vars, reader_vars >>
    \/ IdentifyStep /\ UNCHANGED << scorer_vars, reader_vars >>
    \/ IdentifyRespond /\ UNCHANGED << scorer_vars, reader_vars >>
    \/ MissingBegin /\ UNCHANGED << scorer_vars, reader_vars >>
    \/ MissingStep /\ UNCHANGED << scorer_vars, reader_vars >>
    \/ MissingRespond /\ UNCHANGED << scorer_vars, reader_vars >>

Spec == Init /\ [][Next]_vars

\* the scorer applied to drawn pairs of sequences
InitScorer == ScorerInit /\ HandlerInit /\ ReaderIdle

NextScorer == Score /\ UNCHANGED << handler_vars, reader_vars >>

SpecScorer == InitScorer /\ [][NextScorer]_vars

\* the reader applied to drawn files
InitReader == ReaderInit /\ HandlerInit /\ ScorerIdle

NextReader ==
    \/ ReadStep /\ UNCHANGED << handler_vars, scorer_vars >>
    \/ ReadExhausted /\ UNCHANGED << handler_vars, scorer_vars >>
    \/ ReadReturn /\ UNCHANGED << handler_vars, scorer_vars >>

SpecReader == InitReader /\ [][NextReader]_vars

----------------------------------------------------------------------------
(* Vocabulary of the properties *)

\* the record carries a sequence
HasSequence(e) == "DNA_sequence" \in DOMAIN e

\* normalized similarity of the record's sequence to the query of the request
SimilarityOf(e) == Similarity(sequence_a, Take(e.DNA_sequence, SequenceCap))

\* an Exact match: normalized similarity equal to 1.0
Exact(e) == HasSequence(e) /\ IsOne(SimilarityOf(e))

UploadOk == "file" \in DOMAIN request.files /\ request.files.file.filename # ""

\* the request got past every early return of identify / of missing (POST)
ReachedLoop(route) ==
    /\ pc # "idle"
    /\ request.route = route
    /\ request.method = "POST"
    /\ UploadOk
    /\ "population" \in DOMAIN api_data
    /\ route = "identify" => Get(request.form, "status") \in valid_statuses \cup {"all"}

\* the records identify has to scan, in population order
Selected ==
    IF Get(request.form, "status") = "all"
    THEN api_data.population
    ELSE SelectSeq(api_data.population,
                   LAMBDA e : Get(e, "status") = Get(request.form, "status"))

\* positions 1..n of F that carry a sequence, ascending
RECURSIVE SequencedPositions(_, _)
SequencedPositions(F, n) ==
    IF n = 0 THEN << >>
    ELSE SequencedPositions(F, n - 1) \o (IF HasSequence(F[n]) THEN << n >> ELSE << >>)

ExactPositions(F) == { k \in 1..Len(F) : Exact(F[k]) }

Least(S) == CHOOSE k \in S : \A j \in S : k <= j
Greatest(S) == CHOOSE k \in S : \A j \in S : k >= j

\* the primary match of the reply carries the fields of record e
IsPrimary(e) ==
    /\ "main_match_info" \in DOMAIN response
    /\ DOMAIN response.main_match_info
          = DOMAIN InfoOf(e) \cup {"similarity_percentage", "match_status"}
    /\ \A key \in DOMAIN InfoOf(e) : response.main_match_info[key] = e[key]

\* the relative candidates missing collects over positions 1..n of F
RECURSIVE Collected(_, _)
Collected(F, n) ==
    IF n = 0 THEN << >>
    ELSE Collected(F, n - 1)
         \o (IF HasSequence(F[n])
                /\ Percentage(SimilarityOf(F[n])) >= SIMILARITY_THRESHOLD_CHILD
             THEN << [relative_data |-> InfoOf(F[n])] >> ELSE << >>)

ErrorMessages ==
    { "Please upload a file for both DNA sequences.",
      "Please upload non-empty files for both DNA sequences.",
      "Please upload a file of DNA sequences.",
      "Please upload a non-empty file for the DNA sequence.",
      "API response is not in the expected format.",
      "Failed to retrieve data from API",
      "Invalid status. Please select one of: 'missing', 'acknowledged', 'crime', 'disaster' or 'all' to search in all database." }

----------------------------------------------------------------------------
(* identify *)

\* C1: when some record selected by a valid status filter is an Exact match,
\* identify never scores a record after the first such record, and its reply
\* carries the fields of that first record with similarity percentage 100,
\* also when later records are Exact too.
C1_IdentifyFirstExactWins ==
    ReachedLoop("identify") =>
        LET F == Selected
            E == ExactPositions(F)
        IN  E # {} =>
              /\ \A i \in DOMAIN scored : scored[i] <= Least(E)
              /\ pc \in {"after_loop", "done"} => scored = SequencedPositions(F, Least(E))
              /\ pc = "done" =>
                    /\ response.statusCode = 200
                    /\ response.matches = InfoOf(F[Least(E)])
                    /\ response.similarity_percentage = 100

\* identify has replied on a population whose records #1 and #3 are both Exact
\* and differ
C1_Witness ==
    /\ ReachedLoop("identify")
    /\ pc = "done"
    /\ Len(Selected) = 3
    /\ Exact(Selected[1])
    /\ Exact(Selected[3])
    /\ Selected[1] # Selected[3]
    /\ response.statusCode = 200

\* the request is one of the caller's mistakes or meets a failed fetch
InputError ==
    IF request.route = "compare"
    THEN \/ "file_a" \notin DOMAIN request.files
         \/ "file_b" \notin DOMAIN request.files
         \/ request.files.file_a.filename = ""
         \/ request.files.file_b.filename = ""
    ELSE request.method = "POST" /\ ~UploadOk
FetchError == "error" \in DOMAIN api_data
FilterError ==
    /\ request.route = "identify"
    /\ UploadOk
    /\ "population" \in DOMAIN api_data
    /\ Get(request.form, "status") \notin valid_statuses \cup {"all"}

\* C6: a request with a missing upload or an empty file name, one that meets
\* a failed fetch, and one with an invalid status filter is answered with the
\* error at once, and the scorer has not been invoked; no error reply is ever
\* preceded by an invocation of the scorer.
C6_ErrorsInvokeNoScorer ==
    /\ (pc # "idle" /\ (InputError \/ FetchError \/ FilterError)) =>
          /\ pc = "done"
          /\ response.statusCode \in {400, 401}
          /\ response.message \in ErrorMessages
          /\ scored = << >>
    /\ response.message \in ErrorMessages => scored = << >>

\* identify has rejected the status "unknown_status" with code 400 although the
\* query and a record of the population carry sequences
C6_Witness ==
    /\ pc = "done"
    /\ FilterError
    /\ Get(request.form, "status") = "unknown_status"
    /\ response.statusCode = 400
    /\ request.files.file.body = QueryFile
    /\ \E k \in DOMAIN api_data.population : HasSequence(api_data.population[k])
    /\ scored = << >>

----------------------------------------------------------------------------
(* missing *)

\* C2: when no record of the population is an Exact match, missing replies
\* "no match" and reports no primary match and no relative candidates.
C2_NoExactNoMatch ==
    (ReachedLoop("missing") /\ pc = "done"
       /\ \A k \in DOMAIN api_data.population : ~Exact(api_data.population[k])) =>
        /\ response.message = "No match found."
        /\ response.statusCode = 404
        /\ "main_match_info" \notin DOMAIN response
        /\ "potential_relative_info" \notin DOMAIN response

\* C3: a scored record of similarity exactly 0.96 is collected as a relative
\* candidate, and a scored record of similarity below 0.96 is not.
C3_TierBoundary ==
    (ReachedLoop("missing") /\ pc \in {"scan", "after_loop"}) =>
        \A k \in 1..(idx - 1) :
            HasSequence(filtered_data[k]) =>
                LET s == SimilarityOf(filtered_data[k])
                    collected == \E i \in DOMAIN potential_children_info :
                                    potential_children_info[i].relative_data
                                        = InfoOf(filtered_data[k])
                IN  /\ s.num * 25 = 24 * s.den => collected
                    /\ ~AtLeast(s, 24, 25) => ~collected

\* C4: the record reported as the primary match has similarity exactly 1.0.
C4_PrimaryIsExact ==
    (ReachedLoop("missing") /\ pc = "done" /\ "main_match_info" \in DOMAIN response) =>
        \A k \in DOMAIN api_data.population :
            (HasSequence(api_data.population[k]) /\ IsPrimary(api_data.population[k]))
                => IsOne(SimilarityOf(api_data.population[k]))

\* C5: no record of similarity exactly 1.0 appears in the relative candidate
\* list of the reply.
C5_ExactNeverRelative ==
    (ReachedLoop("missing") /\ pc = "done"
       /\ "potential_relative_info" \in DOMAIN response) =>
        \A i \in DOMAIN response.potential_relative_info :
            "relative_data" \in DOMAIN response.potential_relative_info[i] =>
                \A k \in DOMAIN api_data.population :
                    (HasSequence(api_data.population[k])
                       /\ InfoOf(api_data.population[k])
                            = response.potential_relative_info[i].relative_data)
                        => ~Exact(api_data.population[k])

\* C7: when an Exact match exists, the reply carries a primary match, and its
\* relative candidate list is the collected candidates without those that
\* carry the Exact match's national_id (the explicit "No matching child found"
\* entry when none remains).
C7_RelativesAreCollectedMinusMain ==
    (ReachedLoop("missing") /\ pc = "done"
       /\ \E k \in DOMAIN api_data.population : Exact(api_data.population[k])) =>
        /\ "main_match_info" \in DOMAIN response
        /\ \E k \in DOMAIN api_data.population :
            LET e == api_data.population[k]
                rest == SelectSeq(Collected(api_data.population, Len(api_data.population)),
                                  LAMBDA c : Get(c.relative_data, "national_id")
                                                # Get(e, "national_id"))
            IN  /\ Exact(e)
                /\ response.potential_relative_info
                      = IF rest # << >> THEN rest
                        ELSE << [message |-> "No matching child found",
                                 statusCode |-> 404] >>

\* C10: missing scores every record that carries a sequence exactly once, in
\* population order, and when records are Exact the primary match is the last
\* Exact record in population order.
C10_FullScanLastExactWins ==
    (ReachedLoop("missing") /\ pc = "done") =>
        LET F == api_data.population
            E == ExactPositions(F)
        IN  /\ scored = SequencedPositions(F, Len(F))
            /\ E # {} => IsPrimary(F[Greatest(E)])

----------------------------------------------------------------------------
(* The scorer *)

\* C8: with the default parameters the scorer returns exactly 1.0 for a
\* non-empty sequence against itself, and 0.0, without a division by zero, for
\* the empty sequence against itself.
C8_IdentityScoresOne ==
    (sc_pc = "returned" /\ seq1 = seq2) =>
        /\ "error" \notin DOMAIN sc_result
        /\ sc_result.den > 0
        /\ Len(seq1) > 0 => IsOne(sc_result)
        /\ Len(seq1) = 0 => (sc_result.num = 0 /\ sc_result = Zero)

\* the scorer has returned for a sequence of both residues against itself
C8_Witness ==
    /\ sc_pc = "returned"
    /\ seq1 = seq2
    /\ Len(seq1) >= 2
    /\ \E i, j \in DOMAIN seq1 : seq1[i] # seq1[j]
    /\ IsOne(sc_result)

----------------------------------------------------------------------------
(* The reader *)

\* the stripped lines 1..n of f that are not headers, concatenated in order
RECURSIVE SequenceData(_, _)
SequenceData(f, n) ==
    IF n = 0 THEN << >>
    ELSE SequenceData(f, n - 1)
         \o (IF IsHeader(strip(f[n])) THEN << >> ELSE strip(f[n]))

\* C9: the reader returns the stripped non-header lines, concatenated in order
\* and cut to the first max_length symbols; the result never exceeds
\* max_length, and total_length is the length of the accumulated data at every
\* iteration of the loop.
C9_ExtractionIsTruncatedConcatenation ==
    /\ total_length = Len(data)
    /\ Len(data) <= max_length
    /\ rd_pc = "loop" => data = Take(SequenceData(file, line_no - 1), max_length)
    /\ rd_pc = "done" =>
          /\ rd_result = decode(Take(SequenceData(file, Len(file)), max_length))
          /\ Len(rd_result) <= max_length
          /\ rd_result = retrieve_dna_sequence_from_file(file, max_length)

\* the reader has returned a file with a header line whose data exceeded the cap
C9_Witness ==
    /\ rd_pc = "done"
    /\ max_length > 0
    /\ \E n \in DOMAIN file : IsHeader(strip(file[n]))
    /\ Len(SequenceData(file, Len(file))) > max_length
    /\ Len(rd_result) = max_length

====
